---- MODULE Spec2Model ----
(***************************************************************************)
(* Model of tools/pumpportal_listen.py: one run of the coroutine           *)
(* listen(duration).  The main flow and the read task are asyncio tasks on *)
(* one event loop, so every action below is one task step: the code that   *)
(* runs between two awaits.  The websocket peer (server and network) is   *)
(* the environment: it may push text frames and drop the connection at any *)
(* time while the connection is open.                                      *)
(*                                                                         *)
(* Library semantics the model relies on:                                  *)
(*  - websockets.connect(...) used as `async with`: __aenter__ opens the   *)
(*    connection or raises; __aexit__ awaits ws.close(), which does not    *)
(*    raise and is idempotent, then lets a pending exception propagate.    *)
(*  - ws.send raises ConnectionClosed when the connection is not open.     *)
(*  - `async for msg in ws` yields the buffered frames in order; when the  *)
(*    buffer is empty and the connection was closed normally               *)
(*    (ConnectionClosedOK) the iteration ends, when it was closed           *)
(*    abnormally ConnectionClosedError is raised out of the iteration.     *)
(*  - task.cancel() on a task that is done is a no-op; on a task that is   *)
(*    suspended it makes the task's next step raise CancelledError at its  *)
(*    await, whether or not the awaited future has completed meanwhile.    *)
(*    CancelledError derives from BaseException, not Exception.            *)
(*  - `await task` on a task that is done returns (or re-raises) at once.  *)
(***************************************************************************)
EXTENDS Integers, Sequences, FiniteSets, TLC

\* ---- bounds of the model ----
MaxFrames == 2      \* frames the server pushes in one run
MaxDuration == 2    \* largest duration, in clock ticks

\* ---- data ----
URI == "wss://pumpportal.fun/api/data"

SubscribeMsg == [method |-> "subscribeNewToken"]

\* Inbound frames: texts over the characters "1", "[", "]", "h", "i".
Frames == { <<"1">>, <<"[", "]">>, <<"[", "[", "1", "]", "]">>,
            <<"h", "i">>, <<"[", "1">> }

Durations == 0..MaxDuration

NoObj == [depth |-> 0, atom |-> FALSE]

\* json.loads restricted to the grammar  value ::= 1 | [] | [ value ] :
\* parses one value of s starting at position i.  The decoded object is
\* represented by its nesting depth and whether its innermost value is the
\* number 1 (atom) or the empty list.
RECURSIVE ParseValue(_, _)
ParseValue(s, i) ==
    IF i > Len(s) THEN [ok |-> FALSE, next |-> 0, obj |-> NoObj]
    ELSE IF s[i] = "1" THEN [ok |-> TRUE, next |-> i + 1, obj |-> [depth |-> 0, atom |-> TRUE]]
    ELSE IF s[i] = "[" THEN
        IF i + 1 <= Len(s) /\ s[i + 1] = "]"
        THEN [ok |-> TRUE, next |-> i + 2, obj |-> [depth |-> 1, atom |-> FALSE]]
        ELSE LET r == ParseValue(s, i + 1) IN
             IF r.ok /\ r.next <= Len(s) /\ s[r.next] = "]"
             THEN [ok |-> TRUE, next |-> r.next + 1,
                   obj |-> [depth |-> r.obj.depth + 1, atom |-> r.obj.atom]]
             ELSE [ok |-> FALSE, next |-> 0, obj |-> NoObj]
    ELSE [ok |-> FALSE, next |-> 0, obj |-> NoObj]

\* json.loads(msg): succeeds iff the whole text is one value.
JsonLoads(msg) ==
    LET r == ParseValue(msg, 1) IN
    IF r.ok /\ r.next = Len(msg) + 1
    THEN [ok |-> TRUE, obj |-> r.obj]
    ELSE [ok |-> FALSE, obj |-> NoObj]

\* ---- timestamps ----
\* Values of the microsecond field of datetime.utcnow() that occur in a run.
Micros == {0, 250000}

\* The six decimal digits of a microsecond value.
Digits6(us) ==
    << (us \div 100000) % 10, (us \div 10000) % 10, (us \div 1000) % 10,
       (us \div 100) % 10, (us \div 10) % 10, us % 10 >>

\* datetime.isoformat(): date and time to the second, always written in
\* the same layout, followed by "." and six digits only when the microsecond
\* field is not 0.
IsoFormat(t) ==
    [base |-> "YYYY-MM-DDTHH:MM:SS", frac |-> IF t.us = 0 THEN <<>> ELSE Digits6(t.us)]

\* utcnow().isoformat() + "Z"
Stamp(t) == [base |-> IsoFormat(t).base, frac |-> IsoFormat(t).frac, zone |-> "Z"]

NoStamp == [base |-> "", frac |-> <<>>, zone |-> ""]

\* ---- console lines ----
SubscribedLine(t) ==
    [kind |-> "subscribed", ts |-> Stamp(t), detail |-> URI, msg |-> <<>>, obj |-> NoObj]

PrettyLine(t, o) == [kind |-> "pretty", ts |-> Stamp(t), detail |-> "", msg |-> <<>>, obj |-> o]

RawLine(t, m) == [kind |-> "raw", ts |-> Stamp(t), detail |-> "", msg |-> m, obj |-> NoObj]

ErrorLine(e) == [kind |-> "error", ts |-> NoStamp, detail |-> e, msg |-> <<>>, obj |-> NoObj]

\* The line the read loop prints for the frame m received at time t: the
\* body of the for loop.
FrameLine(t, m) ==
    LET r == JsonLoads(m) IN
    IF r.ok THEN PrettyLine(t, r.obj) ELSE RawLine(t, m)

VARIABLES
    pc,             \* position of the main flow (listen)
    duration,       \* the argument of listen, in ticks
    conn,           \* "none", "open", "dropOK", "dropErr", "closed"
    inbox,          \* frames received by the library, not yet consumed
    served,         \* frames the server has pushed
    wire,           \* outbound data frames transmitted
    out,            \* console lines printed
    received,       \* frames the read loop has bound to msg, in order
    reader,         \* "none", "pending", "running", "finished", "failed", "cancelled"
    cancelRequested,\* task.cancel() was called on a task that was not done
    slept,          \* ticks elapsed of asyncio.sleep(duration)
    waited,         \* asyncio.sleep(duration) has returned
    exc,            \* exception propagating in listen: "none" or its name
    result,         \* "none", "Completed", "ConnectionError"
    connectAttempts,
    sendAttempts,
    closeCalls

vars == <<pc, duration, conn, inbox, served, wire, out, received, reader, cancelRequested,
          slept, waited, exc, result, connectAttempts, sendAttempts, closeCalls>>

Init ==
    /\ pc = "start"
    /\ duration \in Durations
    /\ conn = "none"
    /\ inbox = <<>>
    /\ served = 0
    /\ wire = <<>>
    /\ out = <<>>
    /\ received = <<>>
    /\ reader = "none"
    /\ cancelRequested = FALSE
    /\ slept = 0
    /\ waited = FALSE
    /\ exc = "none"
    /\ result = "none"
    /\ connectAttempts = 0
    /\ sendAttempts = 0
    /\ closeCalls = 0

\* datetime.utcnow() when the microsecond field reads us; the date and the
\* time to the second do not change the layout of the timestamp.
Now(us) == [us |-> us]

ReaderDone == reader \in {"finished", "failed", "cancelled"}

\* ---- the environment: the websocket peer ----
ServerPush(f) ==
    /\ conn = "open"
    /\ served < MaxFrames
    /\ inbox' = Append(inbox, f)
    /\ served' = served + 1
    /\ UNCHANGED <<received, pc, duration, conn, wire, out, reader, cancelRequested, slept,
                   waited, exc, result, connectAttempts, sendAttempts, closeCalls>>

ServerDrop(how) ==
    /\ conn = "open"
    /\ conn' = how
    /\ UNCHANGED <<received, pc, duration, inbox, served, wire, out, reader, cancelRequested,
                   slept, waited, exc, result, connectAttempts, sendAttempts, closeCalls>>

\* ---- the main flow: listen ----

\* A listen that creates the read task before it subscribes.
ConnectOKReaderFirst ==
    /\ pc = "start"
    /\ connectAttempts' = connectAttempts + 1
    /\ conn' = "open"
    /\ reader' = "pending"
    /\ pc' = "send"
    /\ UNCHANGED <<received, duration, inbox, served, wire, out, cancelRequested,
                   slept, waited, exc, result, sendAttempts, closeCalls>>

\* websockets.connect(URI).__aenter__ succeeds.
ConnectOK ==
    /\ pc = "start"
    /\ connectAttempts' = connectAttempts + 1
    /\ conn' = "open"
    /\ pc' = "send"
    /\ UNCHANGED <<received, duration, inbox, served, wire, out, reader, cancelRequested,
                   slept, waited, exc, result, sendAttempts, closeCalls>>

\* A listen that retries the connection after a failure.
ConnectFailRetry ==
    /\ pc = "start"
    /\ connectAttempts' = connectAttempts + 1
    /\ out' = Append(out, ErrorLine("ConnectError"))
    /\ UNCHANGED <<received, pc, duration, conn, inbox, served, wire, reader, cancelRequested,
                   slept, waited, exc, result, sendAttempts, closeCalls>>

\* __aenter__ raises: nothing was acquired, the handler of line 32 reports
\* the error and listen returns.
ConnectFail ==
    /\ pc = "start"
    /\ connectAttempts' = connectAttempts + 1
    /\ exc' = "ConnectError"
    /\ out' = Append(out, ErrorLine("ConnectError"))
    /\ result' = "ConnectionError"
    /\ pc' = "done"
    /\ UNCHANGED <<received, duration, conn, inbox, served, wire, reader, cancelRequested,
                   slept, waited, sendAttempts, closeCalls>>

\* ws.send returns: the confirmation is printed, the read task is created
\* and the main flow suspends in asyncio.sleep(duration).
SendOK ==
    /\ pc = "send"
    /\ conn = "open"
    /\ sendAttempts' = sendAttempts + 1
    /\ wire' = Append(wire, SubscribeMsg)
    /\ \E us \in Micros : out' = Append(out, SubscribedLine(Now(us)))
    /\ reader' = "pending"
    /\ slept' = 0
    /\ pc' = "sleep"
    /\ UNCHANGED <<received, duration, conn, inbox, served, cancelRequested, waited, exc,
                   result, connectAttempts, closeCalls>>

\* A listen that ignores the failure of the send and carries on.
SendFailIgnored ==
    /\ pc = "send"
    /\ conn \in {"dropOK", "dropErr"}
    /\ sendAttempts' = sendAttempts + 1
    /\ exc' = "SendError"
    /\ \E us \in Micros : out' = Append(out, SubscribedLine(Now(us)))
    /\ reader' = "pending"
    /\ slept' = 0
    /\ pc' = "sleep"
    /\ UNCHANGED <<received, duration, conn, inbox, served, wire, cancelRequested, waited,
                   result, connectAttempts, closeCalls>>

\* A listen that prints the confirmation before the send has returned.
SendFailPrintsSubscribed ==
    /\ pc = "send"
    /\ conn \in {"dropOK", "dropErr"}
    /\ sendAttempts' = sendAttempts + 1
    /\ exc' = "SendError"
    /\ \E us \in Micros : out' = Append(out, SubscribedLine(Now(us)))
    /\ pc' = "exit"
    /\ UNCHANGED <<received, duration, conn, inbox, served, wire, reader, cancelRequested,
                   slept, waited, result, connectAttempts, closeCalls>>

\* ws.send raises ConnectionClosed: the exception leaves the async with block.
SendFail ==
    /\ pc = "send"
    /\ conn \in {"dropOK", "dropErr"}
    /\ sendAttempts' = sendAttempts + 1
    /\ exc' = "SendError"
    /\ pc' = "exit"
    /\ UNCHANGED <<received, duration, conn, inbox, served, wire, out, reader, cancelRequested,
                   slept, waited, result, connectAttempts, closeCalls>>

\* One tick of the clock while the main flow is suspended in asyncio.sleep.
Tick ==
    /\ pc = "sleep"
    /\ slept < duration
    /\ slept' = slept + 1
    /\ UNCHANGED <<received, pc, duration, conn, inbox, served, wire, out, reader,
                   cancelRequested, waited, exc, result, connectAttempts,
                   sendAttempts, closeCalls>>

\* A listen that stops waiting as soon as the read loop has ended.
TimeoutEarly ==
    /\ pc = "sleep"
    /\ slept = duration \/ reader \in {"finished", "failed"}
    /\ reader # "pending"
    /\ waited' = (slept = duration)
    /\ cancelRequested' = (reader = "running")
    /\ pc' = "awaitTask"
    /\ UNCHANGED <<received, duration, conn, inbox, served, wire, out, reader, slept, exc,
                   result, connectAttempts, sendAttempts, closeCalls>>

\* asyncio.sleep(duration) returns and task.cancel() is called.  The read
\* task was scheduled before the sleep began, so it has run its first step.
Timeout ==
    /\ pc = "sleep"
    /\ slept = duration
    /\ reader # "pending"
    /\ waited' = TRUE
    /\ cancelRequested' = (reader = "running")
    /\ pc' = "awaitTask"
    /\ UNCHANGED <<received, duration, conn, inbox, served, wire, out, reader, slept, exc,
                   result, connectAttempts, sendAttempts, closeCalls>>

\* The exception `await task` leaves in listen after `except CancelledError`.
AwaitOutcome(r) == IF r = "failed" THEN "ReadError" ELSE "none"

\* A listen that cancels the task and does not await it.
AwaitTaskNoJoin ==
    /\ pc = "awaitTask"
    /\ exc' = AwaitOutcome(reader)
    /\ pc' = "exit"
    /\ UNCHANGED <<received, duration, conn, inbox, served, wire, out, reader, cancelRequested,
                   slept, waited, result, connectAttempts, sendAttempts, closeCalls>>

\* `await task` completes once the read task is done.
AwaitTask ==
    /\ pc = "awaitTask"
    /\ ReaderDone
    /\ exc' = AwaitOutcome(reader)
    /\ pc' = "exit"
    /\ UNCHANGED <<received, duration, conn, inbox, served, wire, out, reader, cancelRequested,
                   slept, waited, result, connectAttempts, sendAttempts, closeCalls>>

\* What listen does once the async with block has been left: return, or
\* report the exception in the handler of line 32 and return.
Finish ==
    /\ out' = IF exc = "none" THEN out ELSE Append(out, ErrorLine(exc))
    /\ result' = IF exc = "none" THEN "Completed" ELSE "ConnectionError"
    /\ pc' = "done"

\* A listen that does not release the connection.
ExitNoClose ==
    /\ pc = "exit"
    /\ Finish
    /\ UNCHANGED <<received, duration, conn, inbox, served, wire, reader, cancelRequested,
                   slept, waited, exc, connectAttempts, sendAttempts, closeCalls>>

\* A listen whose handler sits inside the async with block: the error is
\* reported first, the connection is closed afterwards.
ExitReportsFirst ==
    /\ pc = "exit"
    /\ IF exc # "none"
       THEN /\ out' = Append(out, ErrorLine(exc))
            /\ exc' = "none"
            /\ UNCHANGED <<pc, conn, closeCalls, result>>
       ELSE /\ closeCalls' = closeCalls + 1
            /\ conn' = "closed"
            /\ Finish
            /\ exc' = exc
    /\ UNCHANGED <<received, duration, inbox, served, wire, reader, cancelRequested, slept,
                   waited, connectAttempts, sendAttempts>>

\* __aexit__: the connection is closed, then listen finishes.
Exit ==
    /\ pc = "exit"
    /\ closeCalls' = closeCalls + 1
    /\ conn' = "closed"
    /\ Finish
    /\ UNCHANGED <<received, duration, inbox, served, wire, reader, cancelRequested, slept,
                   waited, exc, connectAttempts, sendAttempts>>

\* ---- the read task: reader ----

\* First step of the task: it enters the async for.
ReaderStart ==
    /\ reader = "pending"
    /\ reader' = "running"
    /\ UNCHANGED <<received, pc, duration, conn, inbox, served, wire, out, cancelRequested,
                   slept, waited, exc, result, connectAttempts, sendAttempts, closeCalls>>

\* A reader without the per-message handler: a frame that does not parse
\* ends the task.
ReaderFrameAborts ==
    /\ reader = "running"
    /\ ~cancelRequested
    /\ inbox # <<>>
    /\ inbox' = Tail(inbox)
    /\ received' = Append(received, Head(inbox))
    /\ IF JsonLoads(Head(inbox)).ok
       THEN /\ \E us \in Micros : out' = Append(out, FrameLine(Now(us), Head(inbox)))
            /\ reader' = reader
       ELSE out' = out /\ reader' = "failed"
    /\ UNCHANGED <<pc, duration, conn, served, wire, cancelRequested, slept, waited,
                   exc, result, connectAttempts, sendAttempts, closeCalls>>

\* A reader that prints the raw text of every frame, parsed or not.
ReaderFramePrintsBoth ==
    /\ reader = "running"
    /\ ~cancelRequested
    /\ inbox # <<>>
    /\ inbox' = Tail(inbox)
    /\ received' = Append(received, Head(inbox))
    /\ \E us \in Micros :
           out' = IF JsonLoads(Head(inbox)).ok
                  THEN out \o <<FrameLine(Now(us), Head(inbox)), RawLine(Now(us), Head(inbox))>>
                  ELSE Append(out, RawLine(Now(us), Head(inbox)))
    /\ UNCHANGED <<pc, duration, conn, served, wire, reader, cancelRequested, slept,
                   waited, exc, result, connectAttempts, sendAttempts, closeCalls>>

\* One iteration of the async for: the next frame is printed.
ReaderFrame ==
    /\ reader = "running"
    /\ ~cancelRequested
    /\ inbox # <<>>
    /\ inbox' = Tail(inbox)
    /\ received' = Append(received, Head(inbox))
    /\ \E us \in Micros : out' = Append(out, FrameLine(Now(us), Head(inbox)))
    /\ UNCHANGED <<pc, duration, conn, served, wire, reader, cancelRequested, slept,
                   waited, exc, result, connectAttempts, sendAttempts, closeCalls>>

\* How the iteration ends when no frame is left and the connection is in
\* state c: ConnectionClosedOK ends it, ConnectionClosedError leaves it.
IterationEnd(c) == IF c = "dropErr" THEN "failed" ELSE "finished"

\* The async for finds the connection closed.
ReaderEnd ==
    /\ reader = "running"
    /\ ~cancelRequested
    /\ inbox = <<>>
    /\ conn \in {"dropOK", "dropErr", "closed"}
    /\ reader' = IterationEnd(conn)
    /\ UNCHANGED <<received, pc, duration, conn, inbox, served, wire, out, cancelRequested,
                   slept, waited, exc, result, connectAttempts, sendAttempts, closeCalls>>

\* A reader whose handler also catches the cancellation: the loop goes on.
ReaderCancelSwallowed ==
    /\ reader = "running"
    /\ cancelRequested
    /\ cancelRequested' = FALSE
    /\ UNCHANGED <<received, pc, duration, conn, inbox, served, wire, out, reader, slept,
                   waited, exc, result, connectAttempts, sendAttempts, closeCalls>>

\* A reader that notices the cancellation only when its receive returns.
ReaderCancelNeedsFrame ==
    /\ reader = "running"
    /\ cancelRequested
    /\ inbox # <<>> \/ conn # "open"
    /\ reader' = "cancelled"
    /\ UNCHANGED <<received, pc, duration, conn, inbox, served, wire, out, cancelRequested,
                   slept, waited, exc, result, connectAttempts, sendAttempts, closeCalls>>

\* The cancelled task resumes: CancelledError is raised at the await of
\* the async for, outside the try of line 19, and ends the task.
ReaderCancelled ==
    /\ reader = "running"
    /\ cancelRequested
    /\ reader' = "cancelled"
    /\ UNCHANGED <<received, pc, duration, conn, inbox, served, wire, out, cancelRequested,
                   slept, waited, exc, result, connectAttempts, sendAttempts, closeCalls>>

\* ---- specifications ----
Main == ConnectOK \/ ConnectFail \/ SendOK \/ SendFail \/ Timeout \/ AwaitTask \/ Exit

Reader == ReaderStart \/ ReaderFrame \/ ReaderEnd \/ ReaderCancelled

Server == (\E f \in Frames : ServerPush(f)) \/ (\E how \in {"dropOK", "dropErr"} : ServerDrop(how))

Next == Main \/ Tick \/ Reader \/ Server

Spec == Init /\ [][Next]_vars

\* The event loop runs every task that is ready, the clock advances, and a
\* connect, send and close each complete.  Nothing is assumed of the server.
LiveSpec == Spec /\ WF_vars(Main) /\ WF_vars(Tick) /\ WF_vars(Reader)

TypeOK ==
    /\ pc \in {"start", "send", "sleep", "awaitTask", "exit", "done"}
    /\ duration \in Durations
    /\ conn \in {"none", "open", "dropOK", "dropErr", "closed"}
    /\ served \in 0..MaxFrames
    /\ Len(inbox) <= served
    /\ Len(received) <= served
    /\ reader \in {"none", "pending", "running", "finished", "failed", "cancelled"}
    /\ cancelRequested \in BOOLEAN
    /\ slept \in 0..duration
    /\ waited \in BOOLEAN
    /\ exc \in {"none", "ConnectError", "SendError", "ReadError"}
    /\ result \in {"none", "Completed", "ConnectionError"}

\* ---- properties ----

\* Frames the read task has taken out of the connection.
Consumed == served - Len(inbox)

Established == conn # "none"

ErrorLines == {i \in 1..Len(out) : out[i].kind = "error"}

IsFrameLine(l) == l.kind \in {"pretty", "raw"}

\* The console lines printed for inbound frames, in order.
FrameLines(o) == SelectSeq(o, IsFrameLine)

FrameLineIdx == {i \in 1..Len(out) : IsFrameLine(out[i])}

SubLines == {i \in 1..Len(out) : out[i].kind = "subscribed"}

\* C1: on an established connection the subscription is sent exactly once,
\* and that send has completed before the read task exists or consumes a
\* frame.
C1_SubscribedBeforeRead ==
    /\ sendAttempts <= 1
    /\ Len(wire) <= 1
    /\ (reader # "none" \/ Consumed > 0 \/ pc \in {"sleep", "awaitTask"})
           => (wire = <<SubscribeMsg>> /\ sendAttempts = 1)
    /\ (Established /\ pc \in {"exit", "done"}) => sendAttempts = 1

C1_Witness == reader = "running" /\ Consumed > 0 /\ wire = <<SubscribeMsg>>

\* C2: on every exit path with an established connection the connection is
\* closed exactly once, and is closed when listen returns.
C2_ClosedOnReturn ==
    /\ closeCalls <= 1
    /\ pc # "done" => closeCalls = 0
    /\ (pc = "done" /\ Established) => (closeCalls = 1 /\ conn = "closed")

C2_Witness == pc = "done" /\ exc = "ReadError" /\ closeCalls = 1 /\ conn = "closed"

\* C3: when listen leaves the block and returns, the read task it created
\* has terminated: none is left pending or running.
C3_NoDetachedReader ==
    pc \in {"exit", "done"} => reader \in {"none", "finished", "failed", "cancelled"}

C3_Witness == pc = "done" /\ reader = "cancelled"

\* C4: the read loop never raises past its boundary, so after a successful
\* subscription the run never ends as a reported connection error.
C4_ReaderNeverRaises ==
    /\ reader # "failed"
    /\ (pc = "done" /\ wire # <<>>) => (result = "Completed" /\ ErrorLines = {})

\* C5: when the connection or the subscription send fails, nothing further
\* runs (no confirmation, no read task, no wait), exactly one error line is
\* printed and listen returns normally.
C5_FailureIsTerminal ==
    exc \in {"ConnectError", "SendError"} =>
        /\ reader = "none"
        /\ ~waited /\ slept = 0 /\ ~cancelRequested
        /\ wire = <<>>
        /\ pc \in {"exit", "done"}
        /\ pc = "exit" => out = <<>>
        /\ pc = "done" => (out = <<ErrorLine(exc)>> /\ result = "ConnectionError")

C5_Witness == pc = "done" /\ exc = "SendError" /\ out = <<ErrorLine("SendError")>>

\* C6: cancelling a read task that is still running is not an error: from
\* the cancellation on the task prints and consumes nothing and can only
\* end as cancelled, no exception is left in listen, and the run ends
\* Completed without an error line.
C6_CancelNotError ==
    /\ [](cancelRequested =>
            /\ reader \in {"running", "cancelled"}
            /\ exc = "none"
            /\ pc = "done" => (result = "Completed" /\ ErrorLines = {}))
    /\ [][(cancelRequested /\ reader = "running") =>
            /\ cancelRequested'
            /\ reader' \in {"running", "cancelled"}
            /\ out' = out
            /\ Len(inbox') >= Len(inbox)]_vars

C6_Witness ==
    /\ pc = "done" /\ reader = "cancelled" /\ result = "Completed"
    /\ cancelRequested /\ inbox # <<>>

\* C7: a frame that does not parse is printed raw and does not end the
\* read loop: every step that consumes a frame prints exactly that frame's
\* line, leaves the task running and the main flow untouched; the task
\* fails only on an abnormally closed connection.
C7_ParseFailureIsLocal ==
    /\ [](reader = "failed" => conn \in {"dropErr", "closed"})
    /\ [][Len(inbox') < Len(inbox) =>
            /\ \E us \in Micros :
                   out' = Append(out, IF JsonLoads(Head(inbox)).ok
                                      THEN PrettyLine(Now(us), JsonLoads(Head(inbox)).obj)
                                      ELSE RawLine(Now(us), Head(inbox)))
            /\ reader' = "running"
            /\ <<pc, exc, result>>' = <<pc, exc, result>>]_vars

C7_Witness ==
    /\ reader = "running"
    /\ Len(out) = 3
    /\ out[2].kind = "raw"
    /\ out[3].kind = "pretty"

\* C8: after the subscription is sent, the task is cancelled, the
\* connection closed and listen returned only once the wait of `duration`
\* has elapsed in full, also when the read loop ended earlier; the run never
\* connects again.
C8_NoEarlyReturn ==
    /\ (wire # <<>> /\ (pc \in {"awaitTask", "exit", "done"} \/ cancelRequested \/ closeCalls > 0))
           => (waited /\ slept = duration)
    /\ (wire # <<>> /\ ~waited) => (pc = "sleep" /\ result = "none")
    /\ connectAttempts <= 1

C8_Witness ==
    /\ pc = "sleep" /\ slept < duration
    /\ reader \in {"finished", "failed"}
    /\ closeCalls = 0

\* C9: every run of listen eventually returns, whatever the server sends
\* or does not send.
C9_Terminates == <>(pc = "done")

C9_Witness == pc = "done" /\ reader = "cancelled" /\ served = 0 /\ conn = "closed"

\* C10: one run makes at most one connection attempt and one send, no
\* failure is followed by anything but the exit, and the subscription is the
\* only frame transmitted.
C10_NoRetry ==
    /\ connectAttempts <= 1
    /\ sendAttempts <= 1
    /\ Len(wire) <= 1
    /\ \A i \in 1..Len(wire) : wire[i] = SubscribeMsg
    /\ exc # "none" => pc \in {"exit", "done"}
    /\ exc = "ConnectError" => (sendAttempts = 0 /\ conn = "none")

C10_Witness == pc = "done" /\ exc = "SendError" /\ connectAttempts = 1 /\ wire = <<>>

\* C11: the timestamp of every line printed for an inbound frame ends in
\* "Z" and has a fraction of at least three digits, also when the clock's
\* sub-second part is exactly zero.
C11_StampHasFraction ==
    \A i \in FrameLineIdx : out[i].ts.zone = "Z" /\ Len(out[i].ts.frac) >= 3

\* C12: the lines printed for inbound frames correspond one to one and in
\* order to the frames the reader consumed, each pretty-printed if it
\* parses and raw if not; none is printed once the task has been cancelled
\* or has ended, or listen has returned.
C12_LinesMatchFrames ==
    /\ [](LET fl == FrameLines(out) IN
            /\ Len(received) = Consumed
            /\ Len(fl) = Len(received)
            /\ \A i \in 1..Len(fl) :
                  IF JsonLoads(received[i]).ok
                  THEN fl[i].kind = "pretty" /\ fl[i].obj = JsonLoads(received[i]).obj
                  ELSE fl[i].kind = "raw" /\ fl[i].msg = received[i])
    /\ [][(cancelRequested \/ ReaderDone \/ pc = "done")
             => FrameLines(out') = FrameLines(out)]_vars

C12_Witness ==
    /\ pc = "done"
    /\ Len(received) = 2
    /\ FrameLines(out)[1].kind = "raw"
    /\ FrameLines(out)[2].kind = "pretty"

\* C13: the confirmation line is printed exactly when the connection was
\* established and the subscription sent, at most once, and before every
\* line printed for an inbound frame.
C13_SubscribedIffSent ==
    /\ Cardinality(SubLines) <= 1
    /\ SubLines # {} <=> (Established /\ wire = <<SubscribeMsg>>)
    /\ \A i \in FrameLineIdx : \E j \in SubLines : j < i

C13_Witness ==
    /\ pc = "done"
    /\ SubLines = {1}
    /\ FrameLineIdx # {}
    /\ wire = <<SubscribeMsg>>

\* C14: an error line is printed at most once and is the last output; when
\* it reports a failure on an established connection, that connection has
\* been closed before the line is printed.
C14_ErrorLineLast ==
    /\ Cardinality(ErrorLines) <= 1
    /\ \A i \in ErrorLines : i = Len(out)
    /\ ErrorLines # {} =>
          /\ pc = "done" /\ result = "ConnectionError"
          /\ Established => (conn = "closed" /\ closeCalls = 1)

C14_Witness ==
    /\ ErrorLines = {Len(out)}
    /\ Len(out) >= 3
    /\ exc = "ReadError"
    /\ conn = "closed"

====
